---- MODULE Spec2Model ----
(***************************************************************************)
(* Model of the translation engine of traductor_isomorfico.py:             *)
(* class SistemaTraduccion (tokenizer, glossary, source/target matrices,   *)
(* locution fusion, repair protocol, synchronization, renderer) and the    *)
(* "GUARDAR Y RE-PROCESAR" handler of main(), the only place where a       *)
(* glossary translation is edited.                                         *)
(*                                                                         *)
(* A Python str is modelled as a sequence of characters; a character is a  *)
(* one-code-point value written as a TLA+ string.  ASCII characters are    *)
(* written as themselves, the few non-ASCII code points the code or the    *)
(* inputs mention are written "U+XXXX".                                    *)
(***************************************************************************)
EXTENDS Integers, Sequences, FiniteSets, TLC

VARIABLES mtx_s, mtx_t, glosario, last

vars == <<mtx_s, mtx_t, glosario, last>>

(***************************************************************************)
(* Characters                                                              *)
(***************************************************************************)
UpperLetters ==
  <<"A","B","C","D","E","F","G","H","I","J","K","L","M",
    "N","O","P","Q","R","S","T","U","V","W","X","Y","Z">>

LowerLetters ==
  <<"a","b","c","d","e","f","g","h","i","j","k","l","m",
    "n","o","p","q","r","s","t","u","v","w","x","y","z">>

Digits == {"0","1","2","3","4","5","6","7","8","9"}

\* U+24B6 CIRCLED LATIN CAPITAL LETTER A and U+24D0 CIRCLED LATIN SMALL
\* LETTER A: general category So, so neither matches \w nor \s, and
\* str.lower() maps the first to the second.
CircledUpperA == "U+24B6"
CircledLowerA == "U+24D0"

\* U+00BF and U+00A1, the inverted question and exclamation marks.
InvQuestion == "U+00BF"
InvExclam == "U+00A1"

Range(f) == {f[i] : i \in DOMAIN f}

\* \w of Python's re on str: letters, digits and the underscore.
IsWordChar(c) == c \in Range(UpperLetters) \cup Range(LowerLetters) \cup Digits \cup {"_"}

\* \s of Python's re on str.
IsSpaceChar(c) == c \in {" ", "\t", "\n", "\r", "\f"}

\* str.lower() on one character.
LowerChar(c) ==
  IF c \in Range(UpperLetters)
  THEN LowerLetters[CHOOSE i \in DOMAIN UpperLetters : UpperLetters[i] = c]
  ELSE IF c = CircledUpperA THEN CircledLowerA
  ELSE c

\* str.lower()
Lower(s) == [i \in DOMAIN s |-> LowerChar(s[i])]

\* str.replace("\r", "")
RECURSIVE QuitarCR(_)
QuitarCR(s) ==
  IF s = <<>> THEN <<>>
  ELSE IF Head(s) = "\r" THEN QuitarCR(Tail(s))
  ELSE <<Head(s)>> \o QuitarCR(Tail(s))

\* str.strip(): leading and trailing whitespace removed.
RECURSIVE LStrip(_)
LStrip(s) ==
  IF s # <<>> /\ IsSpaceChar(Head(s)) THEN LStrip(Tail(s)) ELSE s

RECURSIVE RStrip(_)
RStrip(s) ==
  IF s # <<>> /\ IsSpaceChar(s[Len(s)]) THEN RStrip(SubSeq(s, 1, Len(s) - 1)) ELSE s

Strip(s) == RStrip(LStrip(s))

\* sep.join(list)
RECURSIVE Join(_, _)
Join(sep, list) ==
  IF list = <<>> THEN <<>>
  ELSE IF Len(list) = 1 THEN list[1]
  ELSE list[1] \o sep \o Join(sep, Tail(list))

\* "".join(list)
RECURSIVE Concat(_)
Concat(list) ==
  IF list = <<>> THEN <<>> ELSE Head(list) \o Concat(Tail(list))

(***************************************************************************)
(* Tokenizer                                                               *)
(***************************************************************************)
\* re.findall(r"(\w+|[^\w\s])", texto): maximal runs of word characters and
\* single characters that are neither word characters nor whitespace.
RECURSIVE Scan(_, _, _, _)
Scan(t, i, cur, acc) ==
  LET flushed == IF cur = <<>> THEN acc ELSE Append(acc, cur) IN
  IF i > Len(t) THEN flushed
  ELSE IF IsWordChar(t[i]) THEN Scan(t, i + 1, Append(cur, t[i]), acc)
  ELSE IF IsSpaceChar(t[i]) THEN Scan(t, i + 1, <<>>, flushed)
  ELSE Scan(t, i + 1, <<>>, Append(flushed, <<t[i]>>))

Findall(t) == Scan(t, 1, <<>>, <<>>)

Particulas ==
  { <<"e","l">>, <<"l","a">>, <<"d","e">>, <<"e","n">>, <<"y">>,
    <<"q","u","e">>, <<"a">> }

\* re.match(r"[^\w\s]", token) looks at the first character only.
_detectar_categoria(token) ==
  IF token # <<>> /\ ~IsWordChar(token[1]) /\ ~IsSpaceChar(token[1]) THEN "PUNTUACION"
  ELSE IF Lower(token) \in Particulas THEN "PARTICULA"
  ELSE "NUCLEO"

TokenKey(token) ==
  IF _detectar_categoria(token) # "PUNTUACION" THEN Lower(token) ELSE token

\* EntradaGlosario(token_src=key, ...): the key is the function argument.
EntradaGlosario(tgt, cat, st, mar) ==
  [token_tgt |-> tgt, categoria |-> cat, status |-> st, margen |-> mar]

Put(g, key, entrada) ==
  [k \in DOMAIN g \cup {key} |-> IF k = key THEN entrada ELSE g[k]]

\* registrar_token without the test of line 130: the entry is always written.
registrar_token_sobrescribe(g, token_src, categoria) ==
  Put(g, token_src, EntradaGlosario(<<>>, categoria, "PENDIENTE", "DIRECTO"))

registrar_token(g, token_src, categoria) ==
  IF token_src \notin DOMAIN g
  THEN Put(g, token_src, EntradaGlosario(<<>>, categoria, "PENDIENTE", "DIRECTO"))
  ELSE g

\* Slot(...) with the dataclass defaults; id is "S_i"/"T_i", a function of
\* pos_index, and origen is always FUENTE.
Slot(i, token, cat) ==
  [pos_index |-> i, token_src |-> token, token_tgt |-> <<>>,
   categoria |-> cat, status |-> "PENDIENTE",
   inyecciones_previas |-> <<>>, inyecciones_posteriores |-> <<>>]

RECURSIVE RegistrarTodos(_, _)
RegistrarTodos(g, toks) ==
  IF toks = <<>> THEN g
  ELSE RegistrarTodos(
         registrar_token(g, TokenKey(Head(toks)), _detectar_categoria(Head(toks))),
         Tail(toks))

\* Python indexes from 0; the matrices are TLA+ sequences, so the slot with
\* pos_index i is element i + 1.
NuevaMtxS(toks) == [j \in 1..Len(toks) |-> Slot(j - 1, toks[j], _detectar_categoria(toks[j]))]
\* NuevaMtxT storing the glossary key in place of the token's text.
NuevaMtxTConKey(toks) == [j \in 1..Len(toks) |-> Slot(j - 1, TokenKey(toks[j]), "NUCLEO")]

\* NuevaMtxT reusing the target slot at an index whose token is unchanged.
NuevaMtxTConserva(toks) ==
  [j \in 1..Len(toks) |->
     IF j \in DOMAIN mtx_t /\ mtx_t[j].token_src = toks[j]
     THEN mtx_t[j]
     ELSE Slot(j - 1, toks[j], "NUCLEO")]

NuevaMtxT(toks) == [j \in 1..Len(toks) |-> Slot(j - 1, toks[j], "NUCLEO")]

\* The last call made on the engine and what it returned (ok is "True" or
\* "False" for the (bool, message) tuples, "None" where nothing is returned).
None == [ok |-> "None", msg |-> ""]

Call(op, ret) == [op |-> op, ret |-> ret]

procesar_texto_input(texto_crudo) ==
  LET tokens_raw == Findall(QuitarCR(texto_crudo)) IN
  /\ mtx_s' = NuevaMtxS(tokens_raw)
  /\ mtx_t' = NuevaMtxT(tokens_raw)
  /\ glosario' = RegistrarTodos(glosario, tokens_raw)
  /\ last' = Call("procesar_texto_input", None)

(***************************************************************************)
(* Locution fusion                                                         *)
(***************************************************************************)
\* Python's range check on the 0-based index.
EnRango(index, mtx) == 0 <= index /\ index < Len(mtx)

\* " ".join(mtx_s[i].token_src for i in start..end).lower()
KeyLocucion(ms, start_index, end_index) ==
  Lower(Join(<<" ">>, [j \in 1..(end_index - start_index + 1) |-> ms[start_index + j].token_src]))

\* LocucionValida without the test of lines 160-161.
LocucionValidaSinOrden(ms, start_index, end_index) ==
  /\ EnRango(start_index, ms)
  /\ EnRango(end_index, ms)

LocucionValida(ms, start_index, end_index) ==
  /\ EnRango(start_index, ms)
  /\ EnRango(end_index, ms)
  /\ start_index <= end_index

LocucionGlosario(g, ms, start_index, end_index, traduccion_locucion) ==
  Put(g, KeyLocucion(ms, start_index, end_index),
      EntradaGlosario(traduccion_locucion, "LOCUCION", "ASIGNADO", "IDIOM"))

\* LocucionSlot without the else branch: absorbed slots keep their text.
LocucionSlotSinAbsorber(slot, i, start_index, traduccion_locucion) ==
  IF i = start_index
  THEN [slot EXCEPT !.status = "BLOQUEADO",
                    !.token_tgt = traduccion_locucion,
                    !.categoria = "LOCUCION"]
  ELSE [slot EXCEPT !.status = "BLOQUEADO"]

LocucionSlot(slot, i, start_index, traduccion_locucion) ==
  IF i = start_index
  THEN [slot EXCEPT !.status = "BLOQUEADO",
                    !.token_tgt = traduccion_locucion,
                    !.categoria = "LOCUCION"]
  ELSE [slot EXCEPT !.status = "BLOQUEADO", !.token_tgt = <<>>]

LocucionMtxT(mt, start_index, end_index, traduccion_locucion) ==
  [j \in DOMAIN mt |->
     IF start_index <= j - 1 /\ j - 1 <= end_index
     THEN LocucionSlot(mt[j], j - 1, start_index, traduccion_locucion)
     ELSE mt[j]]

LocucionRet(ms, start_index, end_index) ==
  IF ~EnRango(start_index, ms) \/ ~EnRango(end_index, ms)
  THEN [ok |-> "False", msg |-> "Indices invalidos."]
  ELSE IF start_index > end_index
  THEN [ok |-> "False", msg |-> "Inicio > Fin."]
  ELSE [ok |-> "True", msg |-> "Locucion creada."]

crear_locucion(start_index, end_index, traduccion_locucion) ==
  /\ IF LocucionValida(mtx_s, start_index, end_index)
     THEN /\ glosario' = LocucionGlosario(glosario, mtx_s, start_index, end_index,
                                          traduccion_locucion)
          /\ mtx_t' = LocucionMtxT(mtx_t, start_index, end_index, traduccion_locucion)
     ELSE UNCHANGED <<glosario, mtx_t>>
  /\ last' = Call("crear_locucion", LocucionRet(mtx_s, start_index, end_index))
  /\ UNCHANGED mtx_s

(***************************************************************************)
(* Synchronization (core P3)                                               *)
(***************************************************************************)
\* The entry the loop body ends up with: glosario.get(token_src.lower()),
\* and for a punctuation source slot with no such entry,
\* glosario.get(token_src).  found = FALSE stands for Python's None.
Entrada(g, slot_s) ==
  LET token_key == Lower(slot_s.token_src) IN
  IF token_key \in DOMAIN g
  THEN [found |-> TRUE, token_tgt |-> g[token_key].token_tgt,
        categoria |-> g[token_key].categoria]
  ELSE IF slot_s.categoria = "PUNTUACION" /\ slot_s.token_src \in DOMAIN g
  THEN [found |-> TRUE, token_tgt |-> g[slot_s.token_src].token_tgt,
        categoria |-> g[slot_s.token_src].categoria]
  ELSE [found |-> FALSE, token_tgt |-> <<>>, categoria |-> "NUCLEO"]

\* Respetado without the second test: absorbed slots are not skipped.
RespetadoSoloCabecera(slot_t) ==
  slot_t.status = "BLOQUEADO" /\ slot_t.categoria = "LOCUCION"

Respetado(slot_t) ==
  \/ slot_t.status = "BLOQUEADO" /\ slot_t.categoria = "LOCUCION"
  \/ slot_t.status = "BLOQUEADO" /\ slot_t.token_tgt = <<>>

\* CoreSlot with "+=" for "=" on token_tgt.
CoreSlotAcumula(g, slot_s, slot_t) ==
  LET entrada == Entrada(g, slot_s) IN
  IF Respetado(slot_t) THEN slot_t
  ELSE IF entrada.found /\ entrada.token_tgt # <<>>
  THEN [slot_t EXCEPT !.token_tgt = @ \o entrada.token_tgt,
                      !.status = "ASIGNADO",
                      !.categoria = entrada.categoria]
  ELSE IF slot_t.status # "NULO"
  THEN [slot_t EXCEPT !.token_tgt = <<>>, !.status = "PENDIENTE"]
  ELSE slot_t

\* CoreSlot without line 208: the text stays when the slot goes PENDIENTE.
CoreSlotSinBorrar(g, slot_s, slot_t) ==
  LET entrada == Entrada(g, slot_s) IN
  IF Respetado(slot_t) THEN slot_t
  ELSE IF entrada.found /\ entrada.token_tgt # <<>>
  THEN [slot_t EXCEPT !.token_tgt = entrada.token_tgt,
                      !.status = "ASIGNADO",
                      !.categoria = entrada.categoria]
  ELSE IF slot_t.status # "NULO"
  THEN [slot_t EXCEPT !.status = "PENDIENTE"]
  ELSE slot_t

CoreSlot(g, slot_s, slot_t) ==
  LET entrada == Entrada(g, slot_s) IN
  IF Respetado(slot_t) THEN slot_t
  ELSE IF entrada.found /\ entrada.token_tgt # <<>>
  THEN [slot_t EXCEPT !.token_tgt = entrada.token_tgt,
                      !.status = "ASIGNADO",
                      !.categoria = entrada.categoria]
  ELSE IF slot_t.status # "NULO"
  THEN [slot_t EXCEPT !.token_tgt = <<>>, !.status = "PENDIENTE"]
  ELSE slot_t

Core(g, ms, mt) == [j \in DOMAIN mt |-> CoreSlot(g, ms[j], mt[j])]

ejecutar_core_p3 ==
  /\ mtx_t' = Core(glosario, mtx_s, mtx_t)
  /\ last' = Call("ejecutar_core_p3", None)
  /\ UNCHANGED <<mtx_s, glosario>>

(***************************************************************************)
(* Repair protocol                                                         *)
(***************************************************************************)
\* InyectarMtxT with insert(0, texto) for append(texto).
InyectarMtxTAlFrente(mt, index, texto, posicion) ==
  IF posicion = "PRE"
  THEN [mt EXCEPT ![index + 1].inyecciones_previas = <<texto>> \o @]
  ELSE [mt EXCEPT ![index + 1].inyecciones_posteriores = <<texto>> \o @]

InyectarMtxT(mt, index, texto, posicion) ==
  IF posicion = "PRE"
  THEN [mt EXCEPT ![index + 1].inyecciones_previas = Append(@, texto)]
  ELSE [mt EXCEPT ![index + 1].inyecciones_posteriores = Append(@, texto)]

inyectar_token(index, texto, posicion) ==
  /\ IF EnRango(index, mtx_t)
     THEN /\ mtx_t' = InyectarMtxT(mtx_t, index, texto, posicion)
          /\ last' = Call("inyectar_token", [ok |-> "True", msg |-> "Inyeccion exitosa."])
     ELSE /\ UNCHANGED mtx_t
          /\ last' = Call("inyectar_token", [ok |-> "False", msg |-> "Indice error."])
  /\ UNCHANGED <<mtx_s, glosario>>

\* AlternarMtxT restoring to PENDIENTE whatever the text.
AlternarMtxTSiemprePendiente(mt, index) ==
  IF mt[index + 1].status = "NULO"
  THEN [mt EXCEPT ![index + 1].status = "PENDIENTE"]
  ELSE [mt EXCEPT ![index + 1].status = "NULO"]

AlternarMtxT(mt, index) ==
  IF mt[index + 1].status = "NULO"
  THEN [mt EXCEPT ![index + 1].status =
          IF mt[index + 1].token_tgt # <<>> THEN "ASIGNADO" ELSE "PENDIENTE"]
  ELSE [mt EXCEPT ![index + 1].status = "NULO"]

AlternarRet(mt, index) ==
  IF ~EnRango(index, mt) THEN [ok |-> "False", msg |-> "Error."]
  ELSE IF mt[index + 1].status = "NULO" THEN [ok |-> "True", msg |-> "Restaurado."]
  ELSE [ok |-> "True", msg |-> "Anulado."]

alternar_nulidad(index) ==
  /\ mtx_t' = IF EnRango(index, mtx_t) THEN AlternarMtxT(mtx_t, index) ELSE mtx_t
  /\ last' = Call("alternar_nulidad", AlternarRet(mtx_t, index))
  /\ UNCHANGED <<mtx_s, glosario>>

LimpiarMtxT(mt, index) ==
  [mt EXCEPT ![index + 1].inyecciones_previas = <<>>,
             ![index + 1].inyecciones_posteriores = <<>>]

\* No return statement: the caller gets None on either path.
limpiar_inyecciones(index) ==
  /\ mtx_t' = IF EnRango(index, mtx_t) THEN LimpiarMtxT(mtx_t, index) ELSE mtx_t
  /\ last' = Call("limpiar_inyecciones", None)
  /\ UNCHANGED <<mtx_s, glosario>>

(***************************************************************************)
(* Renderer                                                                *)
(***************************************************************************)
\* Prefix over reversed(inyecciones_previas).
PrefixInvertido(iny) ==
  Concat([k \in DOMAIN iny |-> <<"[">> \o iny[Len(iny) + 1 - k] \o <<"]", " ">>])

Prefix(iny) == Concat([k \in DOMAIN iny |-> <<"[">> \o iny[k] \o <<"]", " ">>])
Suffix(iny) == Concat([k \in DOMAIN iny |-> <<" ", "[">> \o iny[k] \o <<"]">>])

\* Slot.render without step 2: an absorbed slot renders like any other.
renderSinAbsorber(slot, mode) ==
  IF slot.status = "NULO" THEN <<"{">> \o slot.token_src \o <<"}">>
  ELSE
    LET nucleo0 == IF slot.token_tgt # <<>> THEN slot.token_tgt
                   ELSE <<"[">> \o slot.token_src \o <<"?", "]">>
        nucleo == IF mode = "BORRADOR" /\ slot.status = "PENDIENTE"
                  THEN <<"_","_","_">> \o nucleo0 \o <<"_","_","_">>
                  ELSE nucleo0
    IN Prefix(slot.inyecciones_previas) \o nucleo \o Suffix(slot.inyecciones_posteriores)

\* Slot.render(mode)
render(slot, mode) ==
  IF slot.status = "NULO" THEN <<"{">> \o slot.token_src \o <<"}">>
  ELSE IF slot.status = "BLOQUEADO" /\ slot.token_tgt = <<>> THEN <<>>
  ELSE
    LET nucleo0 == IF slot.token_tgt # <<>> THEN slot.token_tgt
                   ELSE <<"[">> \o slot.token_src \o <<"?", "]">>
        nucleo == IF mode = "BORRADOR" /\ slot.status = "PENDIENTE"
                  THEN <<"_","_","_">> \o nucleo0 \o <<"_","_","_">>
                  ELSE nucleo0
    IN Prefix(slot.inyecciones_previas) \o nucleo \o Suffix(slot.inyecciones_posteriores)

Cierres == { <<",">>, <<".">>, <<";">>, <<":">> }
Aperturas == { <<"(">>, <<InvQuestion>>, <<InvExclam>> }

\* One iteration of the loop of renderizar_texto_final on the buffer, a list
\* of strings.
RenderPaso(buffer, slot, mode) ==
  LET texto == render(slot, mode)
      is_punct == slot.categoria = "PUNTUACION" \/ Strip(texto) \in Cierres
      popped == IF is_punct /\ buffer # <<>> /\ buffer[Len(buffer)] = <<" ">>
                THEN SubSeq(buffer, 1, Len(buffer) - 1)
                ELSE buffer
      pushed == Append(popped, texto)
  IN IF texto = <<>> THEN buffer
     ELSE IF texto \notin Aperturas THEN Append(pushed, <<" ">>)
     ELSE pushed

RECURSIVE RenderBuffer(_, _, _)
RenderBuffer(mt, n, mode) ==
  IF n = 0 THEN <<>> ELSE RenderPaso(RenderBuffer(mt, n - 1, mode), mt[n], mode)

\* self.modo_salida is read by the renderer only, and main() sets it from the
\* sidebar radio on every run, before rendering: it is the renderer's input.
renderizar_texto_final(mt, mode) == Strip(Concat(RenderBuffer(mt, Len(mt), mode)))

(***************************************************************************)
(* "GUARDAR Y RE-PROCESAR" of main(): the one place a translation is       *)
(* edited.  The editor shows the entries that are neither punctuation nor  *)
(* locution; edited maps each shown key to the text of its row.            *)
(***************************************************************************)
Editables(g) == {k \in DOMAIN g : g[k].categoria \notin {"PUNTUACION", "LOCUCION"}}

\* GuardarGlosario rebuilding the glossary from the rows of the editor.
GuardarGlosarioSoloEditados(g, edited) ==
  [k \in DOMAIN edited |->
     IF g[k].token_tgt # edited[k]
     THEN [g[k] EXCEPT !.token_tgt = edited[k], !.status = "ASIGNADO"]
     ELSE g[k]]

GuardarGlosario(g, edited) ==
  [k \in DOMAIN g |->
     IF k \in DOMAIN edited /\ g[k].token_tgt # edited[k]
     THEN [g[k] EXCEPT !.token_tgt = edited[k], !.status = "ASIGNADO"]
     ELSE g[k]]

guardar_y_reprocesar(edited) ==
  /\ Editables(glosario) # {}
  /\ DOMAIN edited = Editables(glosario)
  /\ glosario' = GuardarGlosario(glosario, edited)
  /\ mtx_t' = Core(glosario', mtx_s, mtx_t)
  /\ last' = Call("guardar_y_reprocesar", None)
  /\ UNCHANGED mtx_s

(***************************************************************************)
(* Inputs                                                                  *)
(***************************************************************************)
\* "Al al": the same key twice, in two spellings.
TextoAlAl == <<"A","l"," ","a","l">>
\* ".": one punctuation mark.
TextoPunto == <<".">>

Textos == {TextoAlAl, TextoPunto}

\* "al", and one symbol that is punctuation to the tokenizer and has a
\* lower-case form.
TextoAl == <<"a","l">>
TextoCirc == <<CircledUpperA>>

TextosSimbolos == {TextoAl, TextoCirc}

\* Texts typed into the editor's translation column.
Traducciones == { <<>>, <<"e","l">> }

\* Translations given to a fusion.
TraduccionesLocucion == { <<"d">> }

\* Texts injected.
Inyecciones == { <<"x">> }

\* Injections are unbounded in the code; the model stops at MaxIny per matrix.
MaxIny == 1

RECURSIVE TotalIny(_)
TotalIny(mt) ==
  IF mt = <<>> THEN 0
  ELSE Len(Head(mt).inyecciones_previas) + Len(Head(mt).inyecciones_posteriores)
       + TotalIny(Tail(mt))

\* Two texts to inject, so that the order of two injections shows.
InyeccionesXY == { <<"x">>, <<"y">> }

\* The cap on injections per matrix where two of them must meet in one list.
MaxInyReparacion == 2

\* Indices offered to the operations: every valid one, and one out of range
\* on each side.
Indices == -1..Len(mtx_t)

Init ==
  /\ mtx_s = <<>>
  /\ mtx_t = <<>>
  /\ glosario = [k \in {} |-> EntradaGlosario(<<>>, "NUCLEO", "PENDIENTE", "DIRECTO")]
  /\ last = Call("init", None)

Procesar(textos) == \E t \in textos : procesar_texto_input(t)
Fusionar(inicios, fines, traducciones) ==
  \E s \in inicios, e \in fines, tr \in traducciones : crear_locucion(s, e, tr)
Sincronizar == ejecutar_core_p3
Inyectar(indices, textos) ==
  /\ TotalIny(mtx_t) < MaxIny
  /\ \E i \in indices, x \in textos, pos \in {"PRE", "POST"} : inyectar_token(i, x, pos)
InyectarHasta(max, indices, textos) ==
  /\ TotalIny(mtx_t) < max
  /\ \E i \in indices, x \in textos, pos \in {"PRE", "POST"} : inyectar_token(i, x, pos)
Alternar(indices) == \E i \in indices : alternar_nulidad(i)
Limpiar(indices) == \E i \in indices : limpiar_inyecciones(i)
Guardar(traducciones) ==
  \E edited \in [Editables(glosario) -> traducciones] : guardar_y_reprocesar(edited)

Next ==
  \/ Procesar(Textos)
  \/ Fusionar(Indices, Indices, TraduccionesLocucion)
  \/ Sincronizar
  \/ Inyectar(Indices, Inyecciones)
  \/ Alternar(Indices)
  \/ Limpiar(Indices)
  \/ Guardar(Traducciones)

Spec == Init /\ [][Next]_vars

\* The same operations on texts that hold a cased symbol.
NextSimbolos ==
  \/ Procesar(TextosSimbolos)
  \/ Fusionar(Indices, Indices, TraduccionesLocucion)
  \/ Sincronizar
  \/ Inyectar(Indices, Inyecciones)
  \/ Alternar(Indices)
  \/ Limpiar(Indices)
  \/ Guardar(Traducciones)

SpecSimbolos == Init /\ [][NextSimbolos]_vars

\* The scenario of the design's test list: "Kitab al-ilm." with its three
\* words translated, and the locution over "al ... ilm".
TextoKitab == <<"K","i","t","a","b"," ","a","l","-","i","l","m",".">>

Kitab == <<"k","i","t","a","b">>
Al == <<"a","l">>
Ilm == <<"i","l","m">>
Libro == <<"l","i","b","r","o">>
El == <<"e","l">>
Conocimiento == <<"c","o","n","o","c","i","m","i","e","n","t","o">>
DelConocimiento == <<"d","e","l","-">> \o Conocimiento

NextEscenario ==
  \/ Procesar({TextoKitab})
  \/ Guardar({Libro, El, Conocimiento})
  \/ Fusionar({1}, {2, 3}, {DelConocimiento})
  \/ Sincronizar

SpecEscenario == Init /\ [][NextEscenario]_vars

\* The repair protocol at work: several injections on the slots of one text,
\* with toggle, synchronization and the fusions that succeed on it (over the
\* first slot, and over both) in between.
NextReparacion ==
  \/ Procesar({TextoAlAl})
  \/ Fusionar({0}, {0, 1}, TraduccionesLocucion)
  \/ Sincronizar
  \/ InyectarHasta(MaxInyReparacion, Indices, InyeccionesXY)
  \/ Alternar(Indices)
  \/ Limpiar(Indices)

SpecReparacion == Init /\ [][NextReparacion]_vars

(***************************************************************************)
(* Properties                                                              *)
(***************************************************************************)
Validos(mt) == {i \in 0..(Len(mt) - 1) : TRUE}

EsSync(call) == call.op = "ejecutar_core_p3"
\* The editor's save runs the synchronization as its last statement.
AplicaSync(call) == call.op \in {"ejecutar_core_p3", "guardar_y_reprocesar"}

Resuelta(g, key) == key \in DOMAIN g /\ g[key].token_tgt # <<>>

\* C1: synchronizing twice in a row gives the same target matrix (every
\* field of every slot) as synchronizing once, in every reachable state.
C1_SyncIdempotente ==
  Core(glosario, mtx_s, Core(glosario, mtx_s, mtx_t)) = Core(glosario, mtx_s, mtx_t)

\* A synchronization has run and has projected a translation.
C1_Witness ==
  /\ EsSync(last)
  /\ \E j \in DOMAIN mtx_t : mtx_t[j].status = "ASIGNADO" /\ mtx_t[j].token_tgt # <<>>

\* C2: a slot that is NULO before synchronize() has the same status,
\* token_tgt and categoria after it, whatever the glossary holds.
C2_SyncRespetaNulos ==
  [][EsSync(last') =>
       \A j \in DOMAIN mtx_t :
         mtx_t[j].status = "NULO" =>
           /\ mtx_t'[j].status = "NULO"
           /\ mtx_t'[j].token_tgt = mtx_t[j].token_tgt
           /\ mtx_t'[j].categoria = mtx_t[j].categoria]_vars

\* C3: a slot that is BLOQUEADO keeps its status, token_tgt and categoria
\* across a synchronization, whatever the glossary holds for its own key.
C3_SyncRespetaBloqueados ==
  [][AplicaSync(last') =>
       \A j \in DOMAIN mtx_t :
         mtx_t[j].status = "BLOQUEADO" =>
           /\ mtx_t'[j].status = "BLOQUEADO"
           /\ mtx_t'[j].token_tgt = mtx_t[j].token_tgt
           /\ mtx_t'[j].categoria = mtx_t[j].categoria]_vars

\* A synchronization has run over an absorbed slot and over a locution head
\* whose own key is resolved in the glossary.
C3_Witness ==
  /\ EsSync(last)
  /\ \E j \in DOMAIN mtx_t :
       /\ mtx_t[j].status = "BLOQUEADO"
       /\ mtx_t[j].categoria # "LOCUCION"
       /\ Resuelta(glosario, TokenKey(mtx_s[j].token_src))
  /\ \E j \in DOMAIN mtx_t :
       /\ mtx_t[j].status = "BLOQUEADO"
       /\ mtx_t[j].categoria = "LOCUCION"
       /\ Resuelta(glosario, TokenKey(mtx_s[j].token_src))

\* C4: after synchronize(), a slot that was neither BLOQUEADO nor NULO is
\* ASIGNADO with the glossary translation of its source token's key when that
\* translation is non-empty, and PENDIENTE with empty text otherwise.
C4_SyncProyecta ==
  [][EsSync(last') =>
       \A j \in DOMAIN mtx_t :
         mtx_t[j].status \notin {"BLOQUEADO", "NULO"} =>
           LET key == TokenKey(mtx_s[j].token_src) IN
           IF Resuelta(glosario, key)
           THEN /\ mtx_t'[j].status = "ASIGNADO"
                /\ mtx_t'[j].token_tgt = glosario[key].token_tgt
           ELSE /\ mtx_t'[j].status = "PENDIENTE"
                /\ mtx_t'[j].token_tgt = <<>>]_vars

Alineadas ==
  /\ Len(mtx_s) = Len(mtx_t)
  /\ \A j \in DOMAIN mtx_s : mtx_s[j].token_src = mtx_t[j].token_src

\* C5: the matrices have equal length and the same source token at every
\* index in every reachable state, and no operation but tokenization changes
\* the length of either.
C5_Alineacion ==
  /\ []Alineadas
  /\ [][last'.op # "procesar_texto_input" =>
          Len(mtx_s') = Len(mtx_s) /\ Len(mtx_t') = Len(mtx_t)]_vars

\* A text with an upper-case token is in the matrices, and a fusion over both
\* of its slots has acted on them.
C5_Witness ==
  /\ last.op = "crear_locucion"
  /\ last.ret.ok = "True"
  /\ Len(mtx_t) = 2
  /\ mtx_s[1].token_src # Lower(mtx_s[1].token_src)
  /\ mtx_t[2].status = "BLOQUEADO"

\* The key the claim names: the lower-cased source tokens of start..end,
\* joined by single spaces.
RECURSIVE ClaveUnida(_, _, _)
ClaveUnida(ms, start, end) ==
  IF start = end THEN Lower(ms[start + 1].token_src)
  ELSE Lower(ms[start + 1].token_src) \o <<" ">> \o ClaveUnida(ms, start + 1, end)

FusionHecha(g, ms, mt, s, e, tr) ==
  /\ \A i \in s..e : mt[i + 1].status = "BLOQUEADO"
  /\ mt[s + 1].token_tgt = tr
  /\ mt[s + 1].categoria = "LOCUCION"
  /\ \A i \in (s + 1)..e : mt[i + 1].token_tgt = <<>>
  /\ ClaveUnida(ms, s, e) \in DOMAIN g
  /\ g[ClaveUnida(ms, s, e)].token_tgt = tr

\* C6: after a successful fuse(s, e, T) with 0 <= s <= e < length, every slot
\* of s..e is BLOQUEADO, slot s holds T with categoria LOCUCION, the slots
\* after s hold no text, and the glossary maps the joined lower-cased key to T.
C6_FusionAtomica ==
  [][(last'.op = "crear_locucion" /\ last'.ret.ok = "True") =>
       \A s \in Indices, e \in Indices, tr \in TraduccionesLocucion :
         (0 <= s /\ s <= e /\ e < Len(mtx_s) /\ crear_locucion(s, e, tr)) =>
            FusionHecha(glosario', mtx_s', mtx_t', s, e, tr)]_vars

\* A fusion has succeeded over two slots, the second absorbed; and one over a
\* single slot has replaced the entry of that slot's own key.
C6_Witness ==
  /\ last.op = "crear_locucion"
  /\ last.ret.ok = "True"
  /\ Len(mtx_t) = 2
  /\ mtx_t[1].status = "BLOQUEADO" /\ mtx_t[1].categoria = "LOCUCION"
  /\ mtx_t[1].token_tgt # <<>>
  /\ mtx_t[2].status = "BLOQUEADO" /\ mtx_t[2].token_tgt = <<>>
  /\ ClaveUnida(mtx_s, 0, 1) \in DOMAIN glosario
  /\ glosario[TokenKey(mtx_s[1].token_src)].categoria = "LOCUCION"

\* C7: for every valid index whose slot is not BLOQUEADO, toggling twice
\* restores the slot's status and text.
C7_NulidadIdaYVuelta ==
  \A i \in Validos(mtx_t) :
    mtx_t[i + 1].status # "BLOQUEADO" =>
      LET ida == AlternarMtxT(mtx_t, i)
          vuelta == AlternarMtxT(ida, i)
      IN /\ ida[i + 1].status # mtx_t[i + 1].status
         /\ vuelta[i + 1].status = mtx_t[i + 1].status
         /\ vuelta[i + 1].token_tgt = mtx_t[i + 1].token_tgt

\* A toggle has just restored a slot that holds a translation.
C7_Witness ==
  /\ last.op = "alternar_nulidad"
  /\ last.ret.msg = "Restaurado."
  /\ \E j \in DOMAIN mtx_t : mtx_t[j].status = "ASIGNADO" /\ mtx_t[j].token_tgt # <<>>

\* C8: between two tokenizations a slot's status changes only from PENDIENTE
\* to ASIGNADO or back by synchronization, from a status other than NULO to
\* BLOQUEADO by fusion, from any status to NULO by the toggle, and from NULO
\* to ASIGNADO (text present) or PENDIENTE (no text) by the toggle.
C8_TransicionesDeStatus ==
  [][last'.op # "procesar_texto_input" =>
       \A j \in DOMAIN mtx_t :
         LET a == mtx_t[j].status
             b == mtx_t'[j].status
         IN a # b =>
              \/ /\ AplicaSync(last')
                 /\ <<a, b>> \in {<<"PENDIENTE", "ASIGNADO">>, <<"ASIGNADO", "PENDIENTE">>}
              \/ /\ last'.op = "crear_locucion"
                 /\ a # "NULO"
                 /\ b = "BLOQUEADO"
              \/ /\ last'.op = "alternar_nulidad"
                 /\ b = "NULO"
              \/ /\ last'.op = "alternar_nulidad"
                 /\ a = "NULO"
                 /\ \/ b = "ASIGNADO" /\ mtx_t'[j].token_tgt # <<>>
                    \/ b = "PENDIENTE" /\ mtx_t'[j].token_tgt = <<>>]_vars

\* The scenario's glossary: the three words resolved as given and no other
\* entry of a single token resolved.
GlosarioEscenario ==
  /\ {Kitab, Al, Ilm} \subseteq DOMAIN glosario
  /\ glosario[Kitab].token_tgt = Libro
  /\ glosario[Al].token_tgt = El
  /\ glosario[Ilm].token_tgt = Conocimiento
  /\ \A k \in DOMAIN glosario :
       (k \notin {Kitab, Al, Ilm} /\ glosario[k].categoria # "LOCUCION") =>
          glosario[k].token_tgt = <<>>

TokensEscenario ==
  /\ Len(mtx_s) = Len(Findall(TextoKitab))
  /\ \A j \in DOMAIN mtx_s : mtx_s[j].token_src = Findall(TextoKitab)[j]

\* C9: "Kitab al-ilm." tokenized into a fresh engine, with "kitab", "al" and
\* "ilm" resolved to "libro", "el" and "conocimiento" and nothing else, then
\* synchronized, renders in FINAL mode as "libro el conocimiento.".
C9_Escenario1 ==
  ( /\ TokensEscenario
    /\ GlosarioEscenario
    /\ \A k \in DOMAIN glosario : glosario[k].categoria # "LOCUCION"
    /\ EsSync(last) )
  => renderizar_texto_final(mtx_t, "FINAL")
       = Libro \o <<" ">> \o El \o <<" ">> \o Conocimiento \o <<".">>

\* Slots 1..e are the last fused range and nothing else is fused.
FusionadoHasta(e) ==
  /\ \A j \in DOMAIN mtx_t : mtx_t[j].status = "BLOQUEADO" <=> (2 <= j /\ j <= e + 1)
  /\ mtx_t[2].token_tgt = DelConocimiento

\* C10: after a fusion with a non-empty translation and a synchronization,
\* the head slot renders the translation and the absorbed slots render
\* nothing; in the scenario, fuse(1, 2, "del-conocimiento") over "al ... ilm"
\* (ending at the token after "al", or at "ilm"), then synchronize, renders
\* in FINAL mode as "libro del-conocimiento.".
C10_Escenario2 ==
  (EsSync(last) /\ TokensEscenario) =>
    /\ \A j \in DOMAIN mtx_t :
         mtx_t[j].status = "BLOQUEADO" =>
           render(mtx_t[j], "FINAL") =
             IF mtx_t[j].categoria = "LOCUCION" THEN mtx_t[j].token_tgt ELSE <<>>
    /\ \A e \in {2, 3} :
         (GlosarioEscenario /\ FusionadoHasta(e)) =>
            renderizar_texto_final(mtx_t, "FINAL")
              = Libro \o <<" ">> \o DelConocimiento \o <<".">>

Modos == {"BORRADOR", "FINAL"}

Absorbido(slot) == slot.status = "BLOQUEADO" /\ slot.token_tgt = <<>>

\* The matrix without its element j.
SinSlot(mt, j) == SubSeq(mt, 1, j - 1) \o SubSeq(mt, j + 1, Len(mt))

\* C11: a slot that is BLOQUEADO with empty text adds nothing to the rendered
\* text in either mode, whatever injections it carries: the text is that of
\* the same matrix without the slot.
C11_OmisionDeAbsorbidos ==
  \A j \in DOMAIN mtx_t, mode \in Modos :
    Absorbido(mtx_t[j]) =>
      renderizar_texto_final(mtx_t, mode) = renderizar_texto_final(SinSlot(mtx_t, j), mode)

\* An absorbed slot carries an injection, next to a head that renders.
C11_Witness ==
  \E j \in DOMAIN mtx_t :
    /\ Absorbido(mtx_t[j])
    /\ mtx_t[j].inyecciones_previas \o mtx_t[j].inyecciones_posteriores # <<>>
    /\ renderizar_texto_final(mtx_t, "FINAL") # <<>>

\* The ranges the claim names: an index below 0 or at or past the length, or
\* start past end.
RangoInvalido(ms, s, e) ==
  \/ s < 0 \/ s >= Len(ms)
  \/ e < 0 \/ e >= Len(ms)
  \/ s > e

\* The step reports a failure and changes neither matrix nor the glossary.
Rechazada ==
  /\ last'.ret.ok = "False"
  /\ mtx_s' = mtx_s
  /\ mtx_t' = mtx_t
  /\ glosario' = glosario

\* C12: fuse(s, e, T) with s or e out of bounds (empty matrices included) or
\* with s > e returns a failure and leaves both matrices and the glossary as
\* they were: a fusion step is a refusal without effect unless it is a call
\* with no such range.
C12_FusionRechazada ==
  [][last'.op = "crear_locucion" =>
       \/ Rechazada
       \/ \A s \in Indices, e \in Indices, tr \in TraduccionesLocucion :
            RangoInvalido(mtx_s, s, e) => ~crear_locucion(s, e, tr)]_vars

\* A fusion with start past end, both in bounds, has been refused.
C12_Witness ==
  /\ last.op = "crear_locucion"
  /\ last.ret.msg = "Inicio > Fin."
  /\ Len(mtx_s) = 2

FueraDeRango(mt, i) == i < 0 \/ i >= Len(mt)

\* C13: inject, clear_injections and toggle_nullified called with an index
\* below 0 or at or past the length each report a failure to the caller and
\* leave both matrices and the glossary unchanged.
C13_ReparacionRechazada ==
  [][last'.op \in {"inyectar_token", "limpiar_inyecciones", "alternar_nulidad"} =>
       \A i \in Indices :
         ( /\ FueraDeRango(mtx_t, i)
           /\ \/ \E x \in Inyecciones, pos \in {"PRE", "POST"} : inyectar_token(i, x, pos)
              \/ limpiar_inyecciones(i)
              \/ alternar_nulidad(i) ) =>
            /\ last'.ret.ok = "False"
            /\ mtx_s' = mtx_s
            /\ mtx_t' = mtx_t
            /\ glosario' = glosario]_vars

\* Across the step, target slot i changes in the fields named at most, and
\* every other target slot not at all.
SoloCambia(i, campos) ==
  /\ Len(mtx_t') = Len(mtx_t)
  /\ \A j \in DOMAIN mtx_t :
       IF j = i + 1
       THEN \A f \in DOMAIN mtx_t[j] \ campos : mtx_t'[j][f] = mtx_t[j][f]
       ELSE mtx_t'[j] = mtx_t[j]

\* C14: with a valid index i, inject appends the text at the end of exactly
\* one injection list of slot i, clear_injections empties both lists of slot
\* i, and toggle_nullified changes only the status of slot i; every other
\* field of slot i, every other target slot, the source matrix and the
\* glossary stay as they were.
C14_MarcoDeReparacion ==
  [][last'.op \in {"inyectar_token", "limpiar_inyecciones", "alternar_nulidad"} =>
       \A i \in Validos(mtx_t) :
         /\ \A x \in InyeccionesXY :
              /\ inyectar_token(i, x, "PRE") =>
                   /\ mtx_t'[i + 1].inyecciones_previas
                        = mtx_t[i + 1].inyecciones_previas \o <<x>>
                   /\ SoloCambia(i, {"inyecciones_previas"})
                   /\ mtx_s' = mtx_s /\ glosario' = glosario
              /\ inyectar_token(i, x, "POST") =>
                   /\ mtx_t'[i + 1].inyecciones_posteriores
                        = mtx_t[i + 1].inyecciones_posteriores \o <<x>>
                   /\ SoloCambia(i, {"inyecciones_posteriores"})
                   /\ mtx_s' = mtx_s /\ glosario' = glosario
         /\ limpiar_inyecciones(i) =>
              /\ mtx_t'[i + 1].inyecciones_previas = <<>>
              /\ mtx_t'[i + 1].inyecciones_posteriores = <<>>
              /\ SoloCambia(i, {"inyecciones_previas", "inyecciones_posteriores"})
              /\ mtx_s' = mtx_s /\ glosario' = glosario
         /\ alternar_nulidad(i) =>
              /\ SoloCambia(i, {"status"})
              /\ mtx_s' = mtx_s /\ glosario' = glosario]_vars

\* A second, different text has been injected after the first into one list
\* of a slot, next to a slot that is fused.
C14_Witness ==
  /\ last.op = "inyectar_token"
  /\ last.ret.ok = "True"
  /\ Len(mtx_t) = 2
  /\ \E j \in DOMAIN mtx_t :
       /\ Len(mtx_t[j].inyecciones_posteriores) = 2
       /\ mtx_t[j].inyecciones_posteriores[1] # mtx_t[j].inyecciones_posteriores[2]
       /\ \E k \in DOMAIN mtx_t : k # j /\ mtx_t[k].status = "BLOQUEADO"

RECURSIVE Antes(_)
Antes(iny) ==
  IF iny = <<>> THEN <<>>
  ELSE <<"[">> \o Head(iny) \o <<"]", " ">> \o Antes(Tail(iny))

RECURSIVE Despues(_)
Despues(iny) ==
  IF iny = <<>> THEN <<>>
  ELSE <<" ", "[">> \o Head(iny) \o <<"]">> \o Despues(Tail(iny))

\* The core text of a slot: what it renders with no injection on it.
Nucleo(slot, mode) ==
  render([slot EXCEPT !.inyecciones_previas = <<>>, !.inyecciones_posteriores = <<>>], mode)

\* A slot whose fragment carries its injections.
Compone(slot) == slot.status # "NULO" /\ ~Absorbido(slot)

RenderOrdenado ==
  \A j \in DOMAIN mtx_t, mode \in Modos :
    Compone(mtx_t[j]) =>
      render(mtx_t[j], mode)
        = Antes(mtx_t[j].inyecciones_previas) \o Nucleo(mtx_t[j], mode)
            \o Despues(mtx_t[j].inyecciones_posteriores)

\* C19: a slot that is neither NULO nor absorbed renders its pre-injections
\* in insertion order, each as "[text] ", then its core text, then its
\* post-injections in insertion order, each as " [text]"; every injection
\* made on the slot is rendered, a later one after an earlier one of its list.
C19_OrdenDeInyecciones ==
  /\ []RenderOrdenado
  /\ [][(last'.op = "inyectar_token" /\ last'.ret.ok = "True") =>
          \A i \in Validos(mtx_t), x \in InyeccionesXY, mode \in Modos :
            Compone(mtx_t[i + 1]) =>
              /\ inyectar_token(i, x, "PRE") =>
                   render(mtx_t'[i + 1], mode)
                     = Antes(mtx_t[i + 1].inyecciones_previas)
                         \o <<"[">> \o x \o <<"]", " ">>
                         \o Nucleo(mtx_t[i + 1], mode)
                         \o Despues(mtx_t[i + 1].inyecciones_posteriores)
              /\ inyectar_token(i, x, "POST") =>
                   render(mtx_t'[i + 1], mode)
                     = render(mtx_t[i + 1], mode) \o <<" ", "[">> \o x \o <<"]">>]_vars

\* A slot holding a translation carries two different pre-injections.
C19_Witness ==
  \E j \in DOMAIN mtx_t :
    /\ mtx_t[j].status = "ASIGNADO"
    /\ Len(mtx_t[j].inyecciones_previas) = 2
    /\ mtx_t[j].inyecciones_previas[1] # mtx_t[j].inyecciones_previas[2]
    /\ render(mtx_t[j], "FINAL") # Nucleo(mtx_t[j], "FINAL")

\* C15: after tokenize(text) from any state, the key of every token (the
\* lower-cased text of a word, the literal text of a punctuation mark) has a
\* glossary entry; an entry made by the call is PENDIENTE with empty
\* translation and the tokenizer's category; an entry that existed before
\* keeps its translation, category and status.
C15_RegistroDeTokens ==
  [][last'.op = "procesar_texto_input" =>
       /\ \A j \in DOMAIN mtx_s' : TokenKey(mtx_s'[j].token_src) \in DOMAIN glosario'
       /\ \A k \in DOMAIN glosario' \ DOMAIN glosario :
            /\ glosario'[k].status = "PENDIENTE"
            /\ glosario'[k].token_tgt = <<>>
            /\ \E j \in DOMAIN mtx_s' :
                 /\ TokenKey(mtx_s'[j].token_src) = k
                 /\ glosario'[k].categoria = _detectar_categoria(mtx_s'[j].token_src)
       /\ \A k \in DOMAIN glosario :
            /\ k \in DOMAIN glosario'
            /\ glosario'[k].token_tgt = glosario[k].token_tgt
            /\ glosario'[k].categoria = glosario[k].categoria
            /\ glosario'[k].status = glosario[k].status]_vars

\* A text has been tokenized whose key was resolved before, next to a key
\* of an earlier text.
C15_Witness ==
  /\ last.op = "procesar_texto_input"
  /\ \E j \in DOMAIN mtx_s : Resuelta(glosario, TokenKey(mtx_s[j].token_src))
  /\ \E k \in DOMAIN glosario :
       \A j \in DOMAIN mtx_s : TokenKey(mtx_s[j].token_src) # k

\* C16: a key present in the glossary in one state is present in every
\* later state, whatever operations run.
C16_GlosarioNoMengua ==
  [][DOMAIN glosario \subseteq DOMAIN glosario']_vars

\* The editor has saved while the glossary held an entry it does not show
\* (a punctuation mark or a locution) and one of an earlier text.
C16_Witness ==
  /\ last.op = "guardar_y_reprocesar"
  /\ \E k \in DOMAIN glosario : k \notin Editables(glosario)
  /\ \E k \in DOMAIN glosario :
       \A j \in DOMAIN mtx_s : TokenKey(mtx_s[j].token_src) # k

\* C17: once a key has a glossary entry, the category of that entry never
\* changes, whatever operations run (a fusion over a single token whose key
\* is that of an existing entry included).
C17_CategoriaFija ==
  [][\A k \in DOMAIN glosario :
       k \in DOMAIN glosario' => glosario'[k].categoria = glosario[k].categoria]_vars

\* C18: after tokenize(text) from any reachable state, both matrices hold
\* the tokens of the new text in order at indices 0..n-1, and every target
\* slot is PENDIENTE with empty text and empty injection lists, whatever the
\* matrices held before.
C18_RetokenizarReinicia ==
  [][last'.op = "procesar_texto_input" =>
       \A t \in Textos :
         procesar_texto_input(t) =>
           LET toks == Findall(t) IN
           /\ Len(mtx_s') = Len(toks)
           /\ Len(mtx_t') = Len(toks)
           /\ \A j \in 1..Len(toks) :
                /\ mtx_s'[j].token_src = toks[j]
                /\ mtx_s'[j].pos_index = j - 1
                /\ mtx_t'[j].token_src = toks[j]
                /\ mtx_t'[j].pos_index = j - 1
                /\ mtx_t'[j].status = "PENDIENTE"
                /\ mtx_t'[j].token_tgt = <<>>
                /\ mtx_t'[j].inyecciones_previas = <<>>
                /\ mtx_t'[j].inyecciones_posteriores = <<>>]_vars

\* A text has been tokenized in an engine where a fusion over two slots
\* was made before and a word is resolved.
C18_Witness ==
  /\ last.op = "procesar_texto_input"
  /\ Len(mtx_t) = 2
  /\ \E k \in DOMAIN glosario : glosario[k].categoria = "LOCUCION" /\ Len(k) > 2
  /\ \E j \in DOMAIN mtx_s : Resuelta(glosario, TokenKey(mtx_s[j].token_src))

\* C20: in every reachable state a PENDIENTE target slot has empty text, an
\* ASIGNADO one has non-empty text, and a BLOQUEADO one has categoria
\* LOCUCION or empty text.
C20_StatusYTexto ==
  \A j \in DOMAIN mtx_t :
    /\ mtx_t[j].status = "PENDIENTE" => mtx_t[j].token_tgt = <<>>
    /\ mtx_t[j].status = "ASIGNADO" => mtx_t[j].token_tgt # <<>>
    /\ mtx_t[j].status = "BLOQUEADO" =>
         (mtx_t[j].categoria = "LOCUCION" \/ mtx_t[j].token_tgt = <<>>)

\* A toggle has restored a slot from NULO; a former locution head holds its
\* text as ASIGNADO, next to a formerly absorbed slot that is PENDIENTE.
C20_Witness ==
  /\ last.op = "alternar_nulidad"
  /\ last.ret.msg = "Restaurado."
  /\ \E j \in DOMAIN mtx_t :
       /\ mtx_t[j].status = "ASIGNADO"
       /\ mtx_t[j].categoria = "LOCUCION"
  /\ \E j \in DOMAIN mtx_t :
       /\ mtx_t[j].status = "PENDIENTE"
       /\ mtx_t[j].categoria = "LOCUCION"

====
